---------------------------- MODULE Spec2Model ----------------------------
(***************************************************************************)
(* chiadog: the event ingestion endpoint (src/chia_log/api_handler.py) and *)
(* the notifier filtering rules (src/notifier/__init__.py).                *)
(*                                                                         *)
(* Text.  A Python str is the sequence of its characters, so that upper(), *)
(* lower(), startswith() and a literal search are computed.  A header      *)
(* value is the sequence of its ';'-separated parts.                       *)
(***************************************************************************)
EXTENDS Integers, Sequences, FiniteSets, TLC

VARIABLES
    conn,        \* client -> its connection: state, request, reply
    backlog,     \* the accepted-connection queue of the listening socket
    cur,         \* the client whose request the serving thread is inside, or 0
    sink,        \* the Events handed to notify_manager.process_events, in order
    sunk,        \* client -> process_events calls made for its request
    config,      \* Notifier._config
    launch,      \* Notifier._program_launch_time
    now,         \* time.time()
    last,        \* the last Event filtered and what the predicates returned
    prefix,      \* WalletAddedCoinParser._prefix
    logs,        \* the log text given to WalletAddedCoinParser.parse, line by line
    parsed,      \* how that call ended, and the records it returned
    cond_checkers,     \* PartialHandler._cond_checkers
    partial_logs,      \* the logs argument of PartialHandler.handle
    stats_manager,     \* the stats_manager argument, with what it has consumed
    handled,           \* how the call of handle ended, and what it did on the way
    thread,            \* where ApiHandler.thread is in start_server
    listening,         \* the listening socket of httpd is open
    shutdown_request,  \* httpd.__shutdown_request
    is_shut_down,      \* httpd.__is_shut_down
    stopper            \* the caller of stop_server

apiVars == <<conn, backlog, cur, sink, sunk>>
notifierVars == <<config, launch, now, last>>
walletVars == <<prefix, logs, parsed>>
partialVars == <<cond_checkers, partial_logs, stats_manager, handled>>
serverVars == <<thread, listening, shutdown_request, is_shut_down, stopper>>
otherVars == <<walletVars, partialVars, serverVars>>
vars == <<apiVars, notifierVars, walletVars, partialVars, serverVars>>

-----------------------------------------------------------------------------
(* str.upper(), str.lower() *)

LowerLetters ==
    <<"a","b","c","d","e","f","g","h","i","j","k","l","m",
      "n","o","p","q","r","s","t","u","v","w","x","y","z">>

UpperLetters ==
    <<"A","B","C","D","E","F","G","H","I","J","K","L","M",
      "N","O","P","Q","R","S","T","U","V","W","X","Y","Z">>

UpperChar(ch) ==
    IF \E i \in 1..Len(LowerLetters) : LowerLetters[i] = ch
    THEN UpperLetters[CHOOSE i \in 1..Len(LowerLetters) : LowerLetters[i] = ch]
    ELSE ch

LowerChar(ch) ==
    IF \E i \in 1..Len(UpperLetters) : UpperLetters[i] = ch
    THEN LowerLetters[CHOOSE i \in 1..Len(UpperLetters) : UpperLetters[i] = ch]
    ELSE ch

upper(s) == [i \in 1..Len(s) |-> UpperChar(s[i])]

lower(s) == [i \in 1..Len(s) |-> LowerChar(s[i])]

\* every way of writing the letters of s in upper or lower case
Casings(s) ==
    { t \in [1..Len(s) -> {s[i] : i \in 1..Len(s)} \cup {LowerChar(s[i]) : i \in 1..Len(s)}] :
        \A i \in 1..Len(s) : t[i] \in {s[i], LowerChar(s[i])} }

-----------------------------------------------------------------------------
(* The enumerations and the Event *)

EventPriority == {"LOW", "NORMAL", "HIGH"}

EventType == {"KEEPALIVE", "USER", "DAILY_STATS", "PLOTDECREASE", "PLOTINCREASE"}

EventService == {"HARVESTER", "FARMER", "FULL_NODE", "DAILY", "WALLET"}

\* member.name, letter by letter
name(member) ==
    CASE member = "LOW"          -> <<"L","O","W">>
      [] member = "NORMAL"       -> <<"N","O","R","M","A","L">>
      [] member = "HIGH"         -> <<"H","I","G","H">>
      [] member = "KEEPALIVE"    -> <<"K","E","E","P","A","L","I","V","E">>
      [] member = "USER"         -> <<"U","S","E","R">>
      [] member = "DAILY_STATS"  -> <<"D","A","I","L","Y","_","S","T","A","T","S">>
      [] member = "PLOTDECREASE" -> <<"P","L","O","T","D","E","C","R","E","A","S","E">>
      [] member = "PLOTINCREASE" -> <<"P","L","O","T","I","N","C","R","E","A","S","E">>
      [] member = "HARVESTER"    -> <<"H","A","R","V","E","S","T","E","R">>
      [] member = "FARMER"       -> <<"F","A","R","M","E","R">>
      [] member = "FULL_NODE"    -> <<"F","U","L","L","_","N","O","D","E">>
      [] member = "DAILY"        -> <<"D","A","I","L","Y">>
      [] member = "WALLET"       -> <<"W","A","L","L","E","T">>

\* Enum[key]: the member of that name, or KeyError
HasMember(enum, key) == \E m \in enum : name(m) = key

Member(enum, key) == CHOOSE m \in enum : name(m) = key

-----------------------------------------------------------------------------
(* JSON values as json.loads returns them *)

JStr(s) == [t |-> "str", s |-> s]

JNum == [t |-> "num", s |-> <<>>]

JNull == [t |-> "null", s |-> <<>>]

Event(type, priority, service, message) ==
    [type |-> type, priority |-> priority, service |-> service, message |-> message]


-----------------------------------------------------------------------------
(* HTTP requests.  A header value is its ';'-separated parts; a missing    *)
(* header reads as None.  The body is what rfile.read(length) returns:     *)
(* bytes json.loads accepts, with the value it yields, or bytes it rejects.*)

None == [present |-> FALSE, parts |-> <<>>]

Header(parts) == [present |-> TRUE, parts |-> parts]

Keys == {"type", "priority", "service", "message"}

JObject(o) == [t |-> "obj", o |-> o, a |-> <<>>]

JArray(a) == [t |-> "arr", o |-> <<>>, a |-> a]

JString(a) == [t |-> "str", o |-> <<>>, a |-> a]

JNumber == [t |-> "num", o |-> <<>>, a |-> <<>>]

Body(json) == [parsable |-> TRUE, json |-> json]

Garbage == [parsable |-> FALSE, json |-> JNumber]

Request(method, ctype, clen, body) ==
    [method |-> method, ctype |-> ctype, clen |-> clen, body |-> body]

\* what a call does: returns a value, or raises
Return(v) == [raised |-> FALSE, v |-> v]

Raise == [raised |-> TRUE, v |-> <<>>]

\* cgi.parse_header(line)[0]: the part before the first ';'
parse_header(line) ==
    IF ~line.present THEN Raise ELSE Return(Head(line.parts))

\* int(self.headers['content-length'])
int_content_length(clen) == IF clen = "absent" THEN Raise ELSE Return(clen)

\* json.loads(self.rfile.read(length))
json_loads(body) == IF body.parsable THEN Return(body.json) ELSE Raise

\* key in message
contains(message, key) ==
    CASE message.t = "obj" -> Return(key \in DOMAIN message.o)
      [] message.t \in {"arr", "str"} ->
            Return(\E i \in 1..Len(message.a) : message.a[i] = key)
      [] OTHER -> Raise

\* message[key]
getitem(message, key) ==
    IF message.t = "obj" /\ key \in DOMAIN message.o
    THEN Return(message.o[key]) ELSE Raise

\* Enum[message[key]]: the lookup without upper()
lookup_as_written(enum, message, key) ==
    LET item == getitem(message, key) IN
    IF item.raised \/ item.v.t # "str" THEN Raise
    ELSE IF HasMember(enum, item.v.s)
         THEN Return(Member(enum, item.v.s))
         ELSE Raise

\* Enum[message[key].upper()]
lookup(enum, message, key) ==
    LET item == getitem(message, key) IN
    IF item.raised \/ item.v.t # "str" THEN Raise
    ELSE IF HasMember(enum, upper(item.v.s))
         THEN Return(Member(enum, upper(item.v.s)))
         ELSE Raise

\* how the part of a handler before its reply ends: a reply with a status,
\* an exception that leaves the handler, or the Event to dispatch
Reply(status, text) == [kind |-> "reply", status |-> status, text |-> text, events |-> <<>>]

Fault == [kind |-> "raise", status |-> 0, text |-> "", events |-> <<>>]

Dispatch(event) == [kind |-> "event", status |-> 0, text |-> "", events |-> <<event>>]

Confirmation == "Event received and notifications sent."

Hello == "{\"hello\": \"world\", \"received\": \"ok\"}"

\* do_POST up to the construction of the Event
build_event(req) ==
    LET ctype == parse_header(req.ctype) IN
    IF ctype.raised THEN Fault
    ELSE IF ctype.v # "application/json" THEN Reply(400, "")
    ELSE IF int_content_length(req.clen).raised THEN Fault
    ELSE LET loaded == json_loads(req.body) IN
    IF loaded.raised THEN Fault
    ELSE LET message == loaded.v
             has_type == contains(message, "type")
             has_priority == contains(message, "priority")
             has_service == contains(message, "service")
             has_message == contains(message, "message")
             event_type == lookup(EventType, message, "type")
             event_priority == lookup(EventPriority, message, "priority")
             event_service == lookup(EventService, message, "service")
         IN
    IF has_type.raised THEN Fault
    ELSE IF ~has_type.v THEN Reply(400, "")
    ELSE IF event_type.raised THEN Fault
    ELSE IF has_priority.raised THEN Fault
    ELSE IF ~has_priority.v THEN Reply(400, "")
    ELSE IF event_priority.raised THEN Fault
    ELSE IF has_service.raised THEN Fault
    ELSE IF ~has_service.v THEN Reply(400, "")
    ELSE IF event_service.raised THEN Fault
    ELSE IF has_message.raised THEN Fault
    ELSE IF ~has_message.v THEN Reply(400, "")
    ELSE Dispatch(Event(event_type.v, event_priority.v, event_service.v,
                        getitem(message, "message").v))

-----------------------------------------------------------------------------
(* Notifier: the texts should_ignore_event tests for, the rule specs of    *)
(* the configuration, and the values the predicates return.                *)

\* "Your harvester appears to be offline!"
Offline ==
    <<"Y","o","u","r"," ","h","a","r","v","e","s","t","e","r"," ","a","p","p","e","a","r","s"," ","t","o"," ","b","e"," ","o","f","f","l","i","n","e","!">>

\* "Experiencing networking issues?"
Networking ==
    <<"E","x","p","e","r","i","e","n","c","i","n","g"," ","n","e","t","w","o","r","k","i","n","g"," ","i","s","s","u","e","s","?">>

\* "Cha-ching!"
ChaChing ==
    <<"C","h","a","-","c","h","i","n","g","!">>

MINIMUM_LAUNCH_SECONDS_BEFORE_ALERTING_ABOUT_BEING_OFFLINE == 30 * 60

\* str.startswith(prefix)
startswith(s, start) ==
    /\ Len(s) >= Len(start)
    /\ SubSeq(s, 1, Len(start)) = start

\* Python values a predicate returns: True, False, or what jsonLogic yields
PyBool(b) == [t |-> "bool", b |-> b, s |-> <<>>]

PyStr(s) == [t |-> "str", b |-> FALSE, s |-> s]

PyNone == [t |-> "none", b |-> FALSE, s |-> <<>>]

\* bool(v)
truthy(v) ==
    CASE v.t = "bool" -> v.b
      [] v.t = "str" -> v.s # <<>>
      [] OTHER -> FALSE

\* an entry of a rule spec: missing, or a string
Missing == [has |-> FALSE, s |-> <<>>]

Entry(s) == [has |-> TRUE, s |-> s]

\* a `message` entry: missing, a pattern re.compile rejects, or a literal text
NoPattern == [has |-> FALSE, valid |-> FALSE, lit |-> <<>>]

BadPattern == [has |-> TRUE, valid |-> FALSE, lit |-> <<>>]

Pattern(lit) == [has |-> TRUE, valid |-> TRUE, lit |-> lit]

\* a `compound` entry: missing, text json.loads rejects, or the text of a tree
NoCompound == [has |-> FALSE, json |-> FALSE, tree |-> <<>>]

BadCompound == [has |-> TRUE, json |-> FALSE, tree |-> <<>>]

Compound(tree) == [has |-> TRUE, json |-> TRUE, tree |-> tree]

\* config.get("ignore"): no such key, a value that is no dict, or a dict
Absent ==
    [kind |-> "absent", type |-> Missing, priority |-> Missing, service |-> Missing,
     message |-> NoPattern, compound |-> NoCompound]

NotADict == [Absent EXCEPT !.kind = "none"]

Rule(type, priority, service, message, compound) ==
    [kind |-> "dict", type |-> type, priority |-> priority, service |-> service,
     message |-> message, compound |-> compound]

\* a json-logic tree: {op: [args]}, or a primitive
Op(op, args) == [op |-> op, args |-> args, lit |-> PyNone]

Prim(v) == [op |-> "", args |-> <<>>, lit |-> v]

Var(key) == Op("var", <<Prim(PyStr(key))>>)

\* re.search(pattern, string, re.M | re.I) for a literal pattern
re_search(pattern, string) ==
    IF ~pattern.valid \/ string.t # "str" THEN [raised |-> TRUE, v |-> FALSE]
    ELSE [raised |-> FALSE,
          v |-> \E i \in 0..(Len(string.s) - Len(pattern.lit)) :
                   lower(SubSeq(string.s, i + 1, i + Len(pattern.lit))) = lower(pattern.lit)]

PyReturn(v) == [raised |-> FALSE, v |-> v]

PyRaise == [raised |-> TRUE, v |-> PyNone]

\* the record the compound rule is evaluated against
flatten(event) ==
    [type |-> PyStr(lower(name(event.type))),
     priority |-> PyStr(lower(name(event.priority))),
     service |-> PyStr(lower(name(event.service))),
     message |-> IF event.message.t = "str" THEN PyStr(event.message.s) ELSE PyNone]

KeyText(key) ==
    CASE key = "type" -> <<"t","y","p","e">>
      [] key = "priority" -> <<"p","r","i","o","r","i","t","y">>
      [] key = "service" -> <<"s","e","r","v","i","c","e">>
      [] key = "message" -> <<"m","e","s","s","a","g","e">>

\* str(v)
str(v) ==
    CASE v.t = "str" -> v.s
      [] v.t = "bool" -> IF v.b THEN <<"T","r","u","e">> ELSE <<"F","a","l","s","e">>
      [] OTHER -> <<"N","o","n","e">>

\* a in b
py_in(a, b) ==
    CASE b.t # "str" -> PyReturn(PyBool(FALSE))
      [] b.t = "str" /\ a.t # "str" -> PyRaise
      [] OTHER ->
           PyReturn(PyBool(\E i \in 0..(Len(b.s) - Len(a.s)) :
                              SubSeq(b.s, i + 1, i + Len(a.s)) = a.s))

RECURSIVE fold_and(_, _)
fold_and(total, values) ==
    IF values = <<>> THEN total
    ELSE fold_and(IF truthy(total) THEN Head(values) ELSE total, Tail(values))

RECURSIVE fold_or(_, _)
fold_or(total, values) ==
    IF values = <<>> THEN total
    ELSE fold_or(IF truthy(total) THEN total ELSE Head(values), Tail(values))

\* jsonLogic(tests, data): the arguments are evaluated first, then the
\* operator is applied; an unknown operator or a wrong number of arguments
\* raises.
RECURSIVE jsonLogic(_, _)
jsonLogic(tests, data) ==
    IF tests.op = "" THEN PyReturn(tests.lit)
    ELSE LET results == [i \in 1..Len(tests.args) |-> jsonLogic(tests.args[i], data)]
             values == [i \in 1..Len(results) |-> results[i].v]
             n == Len(values)
         IN
    IF \E i \in 1..n : results[i].raised THEN PyRaise
    ELSE CASE tests.op = "var" ->
                IF n = 0 THEN PyRaise
                ELSE IF \E k \in DOMAIN data : PyStr(KeyText(k)) = values[1]
                THEN PyReturn(data[CHOOSE k \in DOMAIN data : PyStr(KeyText(k)) = values[1]])
                ELSE PyReturn(PyNone)
           [] tests.op = "==" ->
                IF n # 2 THEN PyRaise
                ELSE IF values[1].t = "str" \/ values[2].t = "str"
                THEN PyReturn(PyBool(str(values[1]) = str(values[2])))
                ELSE PyReturn(PyBool(truthy(values[1]) = truthy(values[2])))
           [] tests.op = "!" ->
                IF n # 1 THEN PyRaise ELSE PyReturn(PyBool(~truthy(values[1])))
           [] tests.op = "and" -> PyReturn(fold_and(PyBool(TRUE), values))
           [] tests.op = "or" -> PyReturn(fold_or(PyBool(FALSE), values))
           [] tests.op = "in" ->
                IF n # 2 THEN PyRaise ELSE py_in(values[1], values[2])
           [] OTHER -> PyRaise

\* the comparison made with the lower-cased name of the compound data
flat_match_lowered(entry, member) == entry.has /\ entry.s = lower(name(member))

\* `key in rule and rule[key] == member.name`
flat_match(entry, member) == entry.has /\ entry.s = name(member)

\* json.loads(rule['compound']) and jsonLogic(rule, data)
compound_result(compound, event) ==
    IF ~compound.json THEN PyRaise ELSE jsonLogic(compound.tree, flatten(event))

\* the grace period ending one instant early: > for >=
InGrace_strict ==
    launch + MINIMUM_LAUNCH_SECONDS_BEFORE_ALERTING_ABOUT_BEING_OFFLINE > now

InGrace ==
    launch + MINIMUM_LAUNCH_SECONDS_BEFORE_ALERTING_ABOUT_BEING_OFFLINE >= now

\* the service test applied to all three messages
IsGraceMessage_harvester(event) ==
    /\ name(event.service) = name("HARVESTER")
    /\ \/ startswith(event.message.s, Offline)
       \/ startswith(event.message.s, Networking)
       \/ startswith(event.message.s, ChaChing)

IsGraceMessage(event) ==
    \/ name(event.service) = name("HARVESTER") /\ startswith(event.message.s, Offline)
    \/ startswith(event.message.s, Networking)
    \/ startswith(event.message.s, ChaChing)

\* the ignore spec consulted first, the grace period last
should_ignore_event_config_first(event) ==
    LET ignore == config.ignore
        searched == re_search(ignore.message, event.message)
        result == compound_result(ignore.compound, event)
        grace == IF InGrace /\ event.message.t # "str" THEN PyRaise
                 ELSE PyReturn(PyBool(InGrace /\ IsGraceMessage(event)))
    IN
    IF ignore.kind = "absent" THEN grace
    ELSE IF ignore.kind # "dict" THEN PyReturn(PyBool(FALSE))
    ELSE IF flat_match(ignore.type, event.type) THEN PyReturn(PyBool(TRUE))
    ELSE IF flat_match(ignore.priority, event.priority) THEN PyReturn(PyBool(TRUE))
    ELSE IF flat_match(ignore.service, event.service) THEN PyReturn(PyBool(TRUE))
    ELSE IF ignore.message.has /\ searched.raised THEN PyReturn(PyBool(FALSE))
    ELSE IF ignore.message.has /\ searched.v THEN PyReturn(PyBool(TRUE))
    ELSE IF ignore.compound.has /\ result.raised THEN PyReturn(PyBool(FALSE))
    ELSE IF ignore.compound.has /\ truthy(result.v) THEN result
    ELSE grace

should_ignore_event(event) ==
    LET ignore == config.ignore
        searched == re_search(ignore.message, event.message)
        result == compound_result(ignore.compound, event)
    IN
    IF InGrace /\ event.message.t # "str" THEN PyRaise
    ELSE IF InGrace /\ IsGraceMessage(event) THEN PyReturn(PyBool(TRUE))
    ELSE IF ignore.kind = "absent" THEN PyReturn(PyBool(FALSE))
    ELSE IF ignore.kind # "dict" THEN PyReturn(PyBool(FALSE))
    ELSE IF flat_match(ignore.type, event.type) THEN PyReturn(PyBool(TRUE))
    ELSE IF flat_match(ignore.priority, event.priority) THEN PyReturn(PyBool(TRUE))
    ELSE IF flat_match(ignore.service, event.service) THEN PyReturn(PyBool(TRUE))
    ELSE IF ignore.message.has /\ searched.raised THEN PyReturn(PyBool(FALSE))
    ELSE IF ignore.message.has /\ searched.v THEN PyReturn(PyBool(TRUE))
    ELSE IF ignore.compound.has /\ result.raised THEN PyReturn(PyBool(FALSE))
    ELSE IF ignore.compound.has THEN result
    ELSE PyReturn(PyBool(FALSE))

\* the except clause falling through to the default of an absent spec
should_allow_event_fail_open(event) ==
    LET allow == config.allow
        searched == re_search(allow.message, event.message)
        result == compound_result(allow.compound, event)
    IN
    IF allow.kind = "absent" THEN PyReturn(PyBool(TRUE))
    ELSE IF allow.kind # "dict" THEN PyReturn(PyBool(TRUE))
    ELSE IF flat_match(allow.type, event.type) THEN PyReturn(PyBool(TRUE))
    ELSE IF flat_match(allow.priority, event.priority) THEN PyReturn(PyBool(TRUE))
    ELSE IF flat_match(allow.service, event.service) THEN PyReturn(PyBool(TRUE))
    ELSE IF allow.message.has /\ searched.raised THEN PyReturn(PyBool(TRUE))
    ELSE IF allow.message.has /\ searched.v THEN PyReturn(PyBool(TRUE))
    ELSE IF allow.compound.has /\ result.raised THEN PyReturn(PyBool(TRUE))
    ELSE IF allow.compound.has THEN result
    ELSE PyReturn(PyBool(FALSE))

should_allow_event(event) ==
    LET allow == config.allow
        searched == re_search(allow.message, event.message)
        result == compound_result(allow.compound, event)
    IN
    IF allow.kind = "absent" THEN PyReturn(PyBool(TRUE))
    ELSE IF allow.kind # "dict" THEN PyReturn(PyBool(FALSE))
    ELSE IF flat_match(allow.type, event.type) THEN PyReturn(PyBool(TRUE))
    ELSE IF flat_match(allow.priority, event.priority) THEN PyReturn(PyBool(TRUE))
    ELSE IF flat_match(allow.service, event.service) THEN PyReturn(PyBool(TRUE))
    ELSE IF allow.message.has /\ searched.raised THEN PyReturn(PyBool(FALSE))
    ELSE IF allow.message.has /\ searched.v THEN PyReturn(PyBool(TRUE))
    ELSE IF allow.compound.has /\ result.raised THEN PyReturn(PyBool(FALSE))
    ELSE IF allow.compound.has THEN result
    ELSE PyReturn(PyBool(FALSE))

\* the filtering policy of a channel: suppress if should_ignore_event, else
\* suppress unless should_allow_event, else send
delivers(event) ==
    LET ignored == should_ignore_event(event)
        allowed == should_allow_event(event)
    IN  /\ ~ignored.raised
        /\ ~truthy(ignored.v)
        /\ ~allowed.raised
        /\ truthy(allowed.v)

-----------------------------------------------------------------------------
(* NotifierSpec: a Notifier constructed with some configuration; the clock *)
(* advances and Events are filtered.                                       *)

Suffix == <<" ","a","g","a","i","n">>

MessageTexts ==
    { JStr(Offline), JStr(Offline \o Suffix), JStr(Networking \o Suffix),
      JStr(ChaChing \o Suffix), JStr(<<"h","e","l","l","o">>), JNum }

\* the Events filtered: the members the rule specs below name, and others
Events ==
    { Event(type, priority, service, message) :
        type \in {"KEEPALIVE", "USER", "DAILY_STATS"},
        priority \in {"LOW", "HIGH"},
        service \in {"HARVESTER", "FARMER", "FULL_NODE", "WALLET"},
        message \in MessageTexts }

EqTypeUser == Op("==", <<Var(<<"t","y","p","e">>), Prim(PyStr(<<"u","s","e","r">>))>>)

InServices ==
    Op("in", <<Var(<<"s","e","r","v","i","c","e">>), Prim(PyStr(<<"f","a","r","m","e","r",",","w","a","l","l","e","t">>))>>)

CompoundEntries ==
    { NoCompound, BadCompound, Compound(EqTypeUser),
      Compound(Op("xor", <<EqTypeUser, EqTypeUser>>)),
      Compound(Op("==", <<Var(<<"t","y","p","e">>)>>)),
      Compound(Op("and", <<EqTypeUser, Op("!", <<InServices>>)>>)),
      Compound(Op("or", <<InServices, Op("in", <<Prim(PyNone), Var(<<"m","e","s","s","a","g","e">>)>>)>>)) }

FlatRules ==
    { Rule(type, priority, service, message, compound) :
        type \in {Missing, Entry(name("KEEPALIVE")), Entry(lower(name("KEEPALIVE")))},
        priority \in {Missing, Entry(name("HIGH"))},
        service \in {Missing, Entry(name("WALLET"))},
        message \in {NoPattern, BadPattern, Pattern(<<"O","F","F","L","I","N","E">>)},
        compound \in {NoCompound, BadCompound} }

Rules ==
    FlatRules
    \cup { Rule(type, Missing, Missing, message, Compound(EqTypeUser)) :
             type \in {Missing, Entry(name("KEEPALIVE"))},
             message \in {NoPattern, BadPattern, Pattern(<<"O","F","F","L","I","N","E">>)} }
    \cup { Rule(Missing, Missing, Missing, NoPattern, compound) : compound \in CompoundEntries }
    \cup { Rule(Entry(<<"U","s","e","r">>), Missing, Missing, NoPattern, NoCompound),
           Rule(Missing, Entry(lower(name("HIGH"))), Missing, NoPattern, NoCompound),
           Rule(Missing, Entry(lower(name("WALLET"))), Missing, NoPattern, NoCompound),
           Rule(Missing, Missing, Entry(lower(name("WALLET"))), NoPattern, NoCompound),
           NotADict }

PairedRules ==
    { Absent, NotADict,
      Rule(Entry(name("KEEPALIVE")), Missing, Missing, NoPattern, NoCompound),
      Rule(Missing, Missing, Entry(name("WALLET")), NoPattern, NoCompound),
      Rule(Missing, Missing, Missing, BadPattern, NoCompound),
      Rule(Missing, Missing, Missing, NoPattern, BadCompound),
      Rule(Missing, Missing, Missing, NoPattern, Compound(EqTypeUser)),
      Rule(Missing, Missing, Missing, Pattern(<<"O","F","F","L","I","N","E">>), NoCompound) }

Configs ==
    { [ignore |-> i, allow |-> Absent] : i \in Rules }
    \cup { [ignore |-> Absent, allow |-> a] : a \in Rules }
    \cup { [ignore |-> i, allow |-> a] : i \in PairedRules, a \in PairedRules }

StartTimes == {1000}

\* seconds after the launch at which the clock is read
Elapsed == {100, 1800, 1801, 1900}

NoConfig == [ignore |-> Absent, allow |-> Absent]

NoLast ==
    [filtered |-> FALSE, event |-> Event("USER", "LOW", "HARVESTER", JNum),
     ignored |-> PyRaise, allowed |-> PyRaise, delivered |-> FALSE]

\* time.time() moves on
Tick ==
    /\ \E t \in Elapsed : now < launch + t /\ now' = launch + t
    /\ last' = NoLast
    /\ UNCHANGED <<config, launch, apiVars, otherVars>>

\* an Event reaches the channel
Notify(event) ==
    /\ ~last.filtered
    /\ last' = [filtered |-> TRUE, event |-> event,
                ignored |-> should_ignore_event(event),
                allowed |-> should_allow_event(event),
                delivered |-> delivers(event)]
    /\ UNCHANGED <<config, launch, now, apiVars, otherVars>>

-----------------------------------------------------------------------------
(* The requests clients send *)

ApplicationJson == Header(<<"application/json">>)

ContentTypes ==
    { None, ApplicationJson,
      Header(<<"application/json", "charset=utf-8">>),
      Header(<<"Application/JSON">>),
      Header(<<"text/plain">>),
      Header(<<"">>) }

Bogus == <<"b","o","g","u","s">>

TypeValues ==
    { JStr(s) : s \in Casings(name("USER")) }
    \cup { JStr(name("KEEPALIVE")), JStr(lower(name("KEEPALIVE"))),
           JStr(lower(name("DAILY_STATS"))), JStr(Bogus), JStr(<<>>), JNum }

PriorityValues ==
    { JStr(s) : s \in Casings(name("LOW")) }
    \cup { JStr(name("HIGH")), JStr(lower(name("NORMAL"))), JStr(Bogus), JNull }

ServiceValues ==
    { JStr(name("FARMER")), JStr(lower(name("FARMER"))),
      JStr(<<"F","a","R","m","e","R">>), JStr(lower(name("WALLET"))),
      JStr(lower(name("FULL_NODE"))), JStr(Bogus), JNum }

MessageValues == { JStr(<<"h","e","l","l","o">>), JStr(<<>>), JNum, JNull }

\* the JSON objects that hold some of the four keys
Objects ==
    { [k \in K |-> CASE k = "type" -> t [] k = "priority" -> p
                     [] k = "service" -> s [] k = "message" -> m] :
        K \in SUBSET Keys, t \in TypeValues, p \in PriorityValues,
        s \in ServiceValues, m \in MessageValues }

OtherBodies ==
    { Garbage, Body(JNumber), Body(JArray(<<>>)), Body(JArray(<<"type">>)),
      Body(JString(<<"x", "type">>)), Body(JObject(<<>>)) }

Requests ==
    { Request("GET", None, "absent", Garbage), Request("HEAD", None, "absent", Garbage) }
    \cup { Request("POST", ApplicationJson, "present", Body(JObject(o))) : o \in Objects }
    \cup { Request("POST", ctype, clen, body) :
             ctype \in ContentTypes, clen \in {"absent", "present"}, body \in OtherBodies }

-----------------------------------------------------------------------------
(* Connections, and the serving thread of socketserver.TCPServer: it takes *)
(* one connection at a time from the backlog and runs the handler on it.   *)

NoRequest == Request("", None, "absent", Garbage)

NoReply == [status |-> 0, text |-> ""]

Idle == [st |-> "idle", req |-> NoRequest, reply |-> NoReply, fault |-> FALSE]

Clients == DOMAIN conn

\* a client connects and sends one of the requests
Send(c, requests) ==
    /\ listening
    /\ conn[c].st = "idle"
    /\ \E req \in requests :
          conn' = [conn EXCEPT ![c] = [@ EXCEPT !.st = "queued", !.req = req]]
    /\ backlog' = Append(backlog, c)
    /\ UNCHANGED <<cur, sink, sunk, notifierVars, otherVars>>

\* the handler returns after replying, or an exception leaves it
Finish(c, outcome) ==
    conn' = [conn EXCEPT ![c] =
               [@ EXCEPT !.st = "done",
                         !.reply = IF outcome.kind = "reply"
                                   THEN [status |-> outcome.status, text |-> outcome.text]
                                   ELSE NoReply,
                         !.fault = (outcome.kind = "raise")]]

Accepted(method) ==
    /\ thread = "serving"
    /\ cur = 0
    /\ backlog # <<>>
    /\ conn[Head(backlog)].req.method = method

do_HEAD ==
    /\ Accepted("HEAD")
    /\ Finish(Head(backlog), Reply(200, ""))
    /\ backlog' = Tail(backlog)
    /\ UNCHANGED <<cur, sink, sunk, notifierVars, otherVars>>

do_GET ==
    /\ Accepted("GET")
    /\ Finish(Head(backlog), Reply(200, Hello))
    /\ backlog' = Tail(backlog)
    /\ UNCHANGED <<cur, sink, sunk, notifierVars, otherVars>>

\* do_POST, lines 41-79: an early 400, an exception, or the Event is built
do_POST ==
    /\ Accepted("POST")
    /\ LET c == Head(backlog)
           outcome == build_event(conn[c].req)
       IN  /\ backlog' = Tail(backlog)
           /\ IF outcome.kind = "event"
              THEN /\ conn' = [conn EXCEPT ![c] = [@ EXCEPT !.st = "built"]]
                   /\ cur' = c
              ELSE /\ Finish(c, outcome)
                   /\ cur' = cur
    /\ UNCHANGED <<sink, sunk, notifierVars, otherVars>>

\* the dispatch repeated after the Event was already handed over
process_events_again ==
    /\ cur # 0
    /\ conn[cur].st \in {"built", "processed"}
    /\ sink' = sink \o build_event(conn[cur].req).events
    /\ sunk' = [sunk EXCEPT ![cur] = @ + 1]
    /\ conn' = [conn EXCEPT ![cur] = [@ EXCEPT !.st = "processed"]]
    /\ UNCHANGED <<backlog, cur, notifierVars, otherVars>>

\* do_POST, line 80: self.notify_manager.process_events([event])
process_events ==
    /\ cur # 0
    /\ conn[cur].st = "built"
    /\ sink' = sink \o build_event(conn[cur].req).events
    /\ sunk' = [sunk EXCEPT ![cur] = @ + 1]
    /\ conn' = [conn EXCEPT ![cur] = [@ EXCEPT !.st = "processed"]]
    /\ UNCHANGED <<backlog, cur, notifierVars, otherVars>>

\* the sink raises and the exception ends the serving thread's work
process_events_raises_for_good ==
    /\ cur # 0
    /\ conn[cur].st = "built"
    /\ sink' = sink \o build_event(conn[cur].req).events
    /\ sunk' = [sunk EXCEPT ![cur] = @ + 1]
    /\ Finish(cur, Fault)
    /\ UNCHANGED <<backlog, cur, notifierVars, otherVars>>

\* do_POST, line 80: process_events raises; the exception leaves do_POST
\* and the server's handle_error takes it
process_events_raises ==
    /\ cur # 0
    /\ conn[cur].st = "built"
    /\ sink' = sink \o build_event(conn[cur].req).events
    /\ sunk' = [sunk EXCEPT ![cur] = @ + 1]
    /\ Finish(cur, Fault)
    /\ cur' = 0
    /\ UNCHANGED <<backlog, notifierVars, otherVars>>

\* the 200 written without waiting for the sink
send_confirmation_early ==
    /\ cur # 0
    /\ conn[cur].st \in {"built", "processed"}
    /\ Finish(cur, Reply(200, Confirmation))
    /\ cur' = 0
    /\ UNCHANGED <<backlog, sink, sunk, notifierVars, otherVars>>

\* do_POST, lines 83-84: the 200 and the confirmation text
send_confirmation ==
    /\ cur # 0
    /\ conn[cur].st = "processed"
    /\ Finish(cur, Reply(200, Confirmation))
    /\ cur' = 0
    /\ UNCHANGED <<backlog, sink, sunk, notifierVars, otherVars>>

-----------------------------------------------------------------------------
(* WalletAddedCoinParser.  A log line is what the pattern sees of it: the  *)
(* characters of [0-9:.T-]* before " wallet ", the module name before      *)
(* ".wallet.wallet_", whether the rest up to "amount: " fits, and the      *)
(* digits after it.                                                        *)

Line(ts, module, fits, amount) ==
    [ts |-> ts, module |-> module, fits |-> fits, amount |-> amount]

\* (?:src|prefix) and the rest of the pattern
matches(line) == line.fits /\ line.module \in {"src", prefix}

\* self._regex.findall(logs): the (timestamp, amount) groups, in order
findall(text) == SelectSeq(text, matches)

Digits == <<"0","1","2","3","4","5","6","7","8","9">>

DigitValue(ch) == (CHOOSE i \in 1..Len(Digits) : Digits[i] = ch) - 1

RECURSIVE DecimalValue(_)
DecimalValue(s) ==
    IF s = <<>> THEN 0
    ELSE DecimalValue(SubSeq(s, 1, Len(s) - 1)) * 10 + DigitValue(s[Len(s)])

\* int(match[1])
int(s) == IF s = <<>> THEN Raise ELSE Return(DecimalValue(s))

\* "2021-05-26T09:37:13.482"
Stamp ==
    <<"2","0","2","1","-","0","5","-","2","6","T","0","9",":","3","7",":","1","3",".","4","8","2">>

\* dateutil_parser.parse(match[0]): a timestamp, or ParserError
dateutil_parse(ts) == IF ts = Stamp THEN Return(ts) ELSE Raise

\* the factor of the if/elif chain: one branch is taken
multiplier_without_lambo ==
    CASE prefix = "chives" -> 10000
      [] prefix = "cryptodoge" -> 1000000
      [] prefix = "shibgreen" -> 1000000000
      [] prefix = "stai" -> 1000
      [] OTHER -> 1

multiplier ==
    CASE prefix = "chives" -> 10000
      [] prefix = "cryptodoge" -> 1000000
      [] prefix = "shibgreen" \/ prefix = "littlelambocoin" -> 1000000000
      [] prefix = "stai" -> 1000
      [] OTHER -> 1

WalletAddedCoinMessage(timestamp, amount_mojos) ==
    [timestamp |-> timestamp, amount_mojos |-> amount_mojos]

Returned(records) == [state |-> "returned", records |-> records]

Raised == [state |-> "raised", records |-> <<>>]

NotCalled == [state |-> "new", records |-> <<>>]

\* the loop over the matches
RECURSIVE parse_matches(_, _)
parse_matches(found, parsed_messages) ==
    IF found = <<>> THEN Returned(parsed_messages)
    ELSE LET match == Head(found)
             mojos == int(match.amount)
             timestamp == dateutil_parse(match.ts)
         IN  IF mojos.raised \/ timestamp.raised THEN Raised
             ELSE parse_matches(Tail(found),
                     Append(parsed_messages,
                            WalletAddedCoinMessage(timestamp.v, mojos.v * multiplier)))

\* WalletAddedCoinParser.parse(logs)
parse ==
    /\ parsed.state = "new"
    /\ parsed' = parse_matches(findall(logs), <<>>)
    /\ UNCHANGED <<prefix, logs, apiVars, notifierVars, partialVars, serverVars>>

Prefixes ==
    {"chia", "flax", "chives", "cryptodoge", "shibgreen", "littlelambocoin", "stai"}

Lines ==
    { Line(ts, "src", TRUE, amount) :
        ts \in {Stamp, <<>>, <<":",":","-">>},
        amount \in {<<>>, <<"0">>, <<"1">>, <<"2">>, <<"0","2">>} }
    \cup { Line(Stamp, module, TRUE, <<"2">>) : module \in Prefixes }
    \cup { Line(Stamp, "src", FALSE, <<"2">>) }

MaxLines == 2

LogTexts == UNION { [1..n -> Lines] : n \in 0..MaxLines }

\* no parser takes part
WalletIdle ==
    /\ prefix = "chia"
    /\ logs = <<>>
    /\ parsed = NotCalled

-----------------------------------------------------------------------------
(* PartialHandler.  The parser, the condition checkers and the stats       *)
(* manager are collaborators: a log line is a partial record or noise, a   *)
(* checker is the decision it takes on each record.                        *)

PartialRecords == {"partial 1", "partial 2"}

PartialLines == PartialRecords \cup {"noise"}

\* self._parser.parse(logs): the records of the text, in order
partial_parse(text) == SelectSeq(text, LAMBDA line : line \in PartialRecords)

Checkers == {"never", "always", "first only"}

\* checker.check(msg): an Event, or None
check(checker, msg) ==
    IF checker = "always" \/ (checker = "first only" /\ msg = "partial 1")
    THEN [by |-> checker, about |-> msg]
    ELSE None

\* stats_manager.consume_partial_messages(activity_messages)
StatsManager(consumed) == [consumed |-> consumed]

consume_partial_messages(stats, activity_messages) ==
    StatsManager(Append(stats.consumed, activity_messages))

\* what a call of handle has done: calls of the parser, calls of check as
\* <<record index, checker index>>, and the events list
Handling(parses, checks, events) ==
    [parses |-> parses, checks |-> checks, events |-> events]

\* for checker in self._cond_checkers, from checker j on, for record i
RECURSIVE for_checker(_, _, _, _)
for_checker(h, activity_messages, i, j) ==
    IF j > Len(cond_checkers) THEN h
    ELSE LET event == check(cond_checkers[j], activity_messages[i])
             checks == Append(h.checks, <<i, j>>)
         IN  for_checker(
                 Handling(h.parses, checks,
                          IF event # None THEN Append(h.events, event) ELSE h.events),
                 activity_messages, i, j + 1)

\* the loops with the checkers outside and the records inside
RECURSIVE for_msg_inner(_, _, _, _)
for_msg_inner(h, activity_messages, i, j) ==
    IF i > Len(activity_messages) THEN h
    ELSE LET event == check(cond_checkers[j], activity_messages[i])
             checks == Append(h.checks, <<i, j>>)
         IN  for_msg_inner(
                 Handling(h.parses, checks,
                          IF event # None THEN Append(h.events, event) ELSE h.events),
                 activity_messages, i + 1, j)

RECURSIVE for_checker_outer(_, _, _)
for_checker_outer(h, activity_messages, j) ==
    IF j > Len(cond_checkers) THEN h
    ELSE for_checker_outer(for_msg_inner(h, activity_messages, 1, j),
                           activity_messages, j + 1)

\* for msg in activity_messages, from record i on
RECURSIVE for_msg(_, _, _)
for_msg(h, activity_messages, i) ==
    IF i > Len(activity_messages) THEN h
    ELSE for_msg(for_checker(h, activity_messages, i, 1), activity_messages, i + 1)

NotHandled == [state |-> "new", did |-> Handling(0, <<>>, <<>>)]

\* if stats_manager: only when the handler has something to report
forward_if_events(activity_messages) ==
    IF stats_manager # None /\ for_msg(Handling(1, <<>>, <<>>), activity_messages, 1).events # <<>>
    THEN consume_partial_messages(stats_manager, activity_messages)
    ELSE stats_manager

\* if stats_manager: stats_manager.consume_partial_messages(activity_messages)
forward(activity_messages) ==
    IF stats_manager # None
    THEN consume_partial_messages(stats_manager, activity_messages)
    ELSE stats_manager

\* PartialHandler.handle(logs, stats_manager)
handle ==
    /\ handled.state = "new"
    /\ LET activity_messages == partial_parse(partial_logs)
       IN  /\ stats_manager' = forward(activity_messages)
           /\ handled' = [state |-> "returned",
                          did |-> for_msg(Handling(1, <<>>, <<>>), activity_messages, 1)]
    /\ UNCHANGED <<cond_checkers, partial_logs, apiVars, notifierVars, walletVars, serverVars>>

MaxRecords == 2

MaxCheckers == 2

\* no PartialHandler takes part
PartialIdle ==
    /\ cond_checkers = <<>>
    /\ partial_logs = <<>>
    /\ stats_manager = None
    /\ handled = NotHandled

-----------------------------------------------------------------------------
(* The serving thread and stop_server *)

Stopper(pc, returned) == [pc |-> pc, returned |-> returned]

\* ApiHandler.__init__ has returned: the socket listens, the thread is started
ServerInit ==
    /\ thread = "started"
    /\ listening = TRUE
    /\ shutdown_request = FALSE
    /\ is_shut_down = FALSE
    /\ stopper = Stopper("idle", 0)

\* the thread is in the loop of serve_forever and nobody stops it
ServerServing ==
    /\ thread = "serving"
    /\ listening = TRUE
    /\ shutdown_request = FALSE
    /\ is_shut_down = FALSE
    /\ stopper = Stopper("idle", 0)

\* start_server, line 98: serve_forever clears __is_shut_down and enters
\* its loop
serve_forever ==
    /\ thread = "started"
    /\ thread' = "serving"
    /\ is_shut_down' = FALSE
    /\ UNCHANGED <<listening, shutdown_request, stopper, apiVars, notifierVars, walletVars, partialVars>>

\* the finally clause of serve_forever
left_serve_forever ==
    /\ thread' = "finished"
    /\ shutdown_request' = FALSE
    /\ is_shut_down' = TRUE

\* the loop sees __shutdown_request between two requests and ends
serve_forever_returns ==
    /\ thread = "serving"
    /\ cur = 0
    /\ shutdown_request
    /\ left_serve_forever
    /\ UNCHANGED <<listening, stopper, apiVars, notifierVars, walletVars, partialVars>>

\* start_server, line 99: an exception leaves the loop
interrupted ==
    /\ thread = "serving"
    /\ cur = 0
    /\ left_serve_forever
    /\ UNCHANGED <<listening, stopper, apiVars, notifierVars, walletVars, partialVars>>

\* the thread ends with the socket left open
thread_ends ==
    /\ thread = "finished"
    /\ thread' = "exited"
    /\ UNCHANGED <<listening, shutdown_request, is_shut_down, stopper, apiVars, notifierVars, walletVars, partialVars>>

\* start_server, lines 101-103: finally server_close(), and the thread ends
server_close ==
    /\ thread = "finished"
    /\ listening' = FALSE
    /\ thread' = "exited"
    /\ UNCHANGED <<shutdown_request, is_shut_down, stopper, apiVars, notifierVars, walletVars, partialVars>>

MaxStops == 2

\* stop_server, line 107: shutdown() sets __shutdown_request
shutdown ==
    /\ stopper.pc = "idle"
    /\ stopper.returned < MaxStops
    /\ shutdown_request' = TRUE
    /\ stopper' = Stopper("waiting", stopper.returned)
    /\ UNCHANGED <<thread, listening, is_shut_down, apiVars, notifierVars, walletVars, partialVars>>

\* stop_server, line 107: shutdown() returns from __is_shut_down.wait()
shutdown_returns ==
    /\ stopper.pc = "waiting"
    /\ is_shut_down
    /\ stopper' = Stopper("joining", stopper.returned)
    /\ UNCHANGED <<thread, listening, shutdown_request, is_shut_down, apiVars, notifierVars, walletVars, partialVars>>

\* stop_server, line 108: self.thread.join() returns
join ==
    /\ stopper.pc = "joining"
    /\ thread = "exited"
    /\ stopper' = Stopper("idle", stopper.returned + 1)
    /\ UNCHANGED <<thread, listening, shutdown_request, is_shut_down, apiVars, notifierVars, walletVars, partialVars>>

-----------------------------------------------------------------------------
(* Spec: one client, any request *)

ApiInit(clients) ==
    /\ conn = [c \in clients |-> Idle]
    /\ backlog = <<>>
    /\ cur = 0
    /\ sink = <<>>
    /\ sunk = [c \in clients |-> 0]

\* no Notifier takes part
NotifierIdle ==
    /\ config = NoConfig
    /\ launch = 0
    /\ now = 0
    /\ last = NoLast

Init == ApiInit({1}) /\ NotifierIdle /\ WalletIdle /\ PartialIdle /\ ServerServing

Connect == \E c \in Clients : Send(c, Requests)

Next ==
    \/ Connect
    \/ do_HEAD
    \/ do_GET
    \/ do_POST
    \/ process_events
    \/ send_confirmation

Spec == Init /\ [][Next]_vars

-----------------------------------------------------------------------------
(* ConcSpec: MaxClients clients that connect and send in any order, while  *)
(* the serving thread is inside a handler or not.                          *)

MaxClients == 2

UserHighFarmerHello ==
    [type |-> JStr(lower(name("USER"))), priority |-> JStr(lower(name("HIGH"))),
     service |-> JStr(lower(name("FARMER"))), message |-> JStr(<<"h","e","l","l","o">>)]

KeepaliveLowWalletEmpty ==
    [type |-> JStr(name("KEEPALIVE")), priority |-> JStr(<<"L","o","W">>),
     service |-> JStr(name("WALLET")), message |-> JStr(<<>>)]

ConcRequests ==
    { Request("POST", ApplicationJson, "present", Body(JObject(UserHighFarmerHello))),
      Request("POST", ApplicationJson, "present", Body(JObject(KeepaliveLowWalletEmpty))),
      Request("POST", ApplicationJson, "present",
              Body(JObject([UserHighFarmerHello EXCEPT !.service = JStr(Bogus)]))),
      Request("POST", ApplicationJson, "present",
              Body(JObject([k \in Keys \ {"message"} |-> UserHighFarmerHello[k]]))),
      Request("POST", Header(<<"text/plain">>), "present", Garbage),
      Request("GET", None, "absent", Garbage),
      Request("HEAD", None, "absent", Garbage) }

ConcInit == ApiInit(1..MaxClients) /\ NotifierIdle /\ WalletIdle /\ PartialIdle /\ ServerServing

ConcConnect == \E c \in Clients : Send(c, ConcRequests)

ConcNext ==
    \/ ConcConnect
    \/ do_HEAD
    \/ do_GET
    \/ do_POST
    \/ process_events
    \/ send_confirmation

ConcSpec == ConcInit /\ [][ConcNext]_vars

-----------------------------------------------------------------------------
(* The ingestion endpoint's contract, in terms of the request alone *)

Done(c) == conn[c].st = "done"

MediaType(req) == Head(req.ctype.parts)

\* a POST with Content-Type application/json whose body is a JSON object
JsonPost(req) ==
    /\ req.method = "POST"
    /\ req.ctype.present
    /\ MediaType(req) = "application/json"
    /\ req.clen = "present"
    /\ req.body.parsable
    /\ req.body.json.t = "obj"

Fields(req) == req.body.json.o

EnumOf(key) ==
    CASE key = "type" -> EventType
      [] key = "priority" -> EventPriority
      [] key = "service" -> EventService

\* the value is a string that is a member's name in some letter case
Names(enum, value) ==
    /\ value.t = "str"
    /\ \E m \in enum : value.s \in Casings(name(m))

Named(enum, value) == CHOOSE m \in enum : value.s \in Casings(name(m))

EnumKeys == {"type", "priority", "service"}

ValidPost(req) ==
    /\ JsonPost(req)
    /\ Keys \subseteq DOMAIN Fields(req)
    /\ \A k \in EnumKeys : Names(EnumOf(k), Fields(req)[k])

NamedEvent(req) ==
    Event(Named(EventType, Fields(req)["type"]),
          Named(EventPriority, Fields(req)["priority"]),
          Named(EventService, Fields(req)["service"]),
          Fields(req)["message"])

Replied(c, status) == conn[c].reply.status = status /\ ~conn[c].fault

\* C1: a JSON POST with all four keys, one of whose enum values names no
\* member, is answered 400, dispatches nothing and raises nothing.
C1_InvalidEnumIs400 ==
    \A c \in Clients :
        ( /\ Done(c)
          /\ JsonPost(conn[c].req)
          /\ Keys \subseteq DOMAIN Fields(conn[c].req)
          /\ \E k \in EnumKeys : ~Names(EnumOf(k), Fields(conn[c].req)[k]) )
        => Replied(c, 400) /\ sunk[c] = 0

C3_MissingKeyIs400 ==
    \A c \in Clients :
        ( /\ Done(c)
          /\ conn[c].req.method = "POST"
          /\ \/ conn[c].req.ctype.present /\ MediaType(conn[c].req) # "application/json"
             \/ JsonPost(conn[c].req) /\ ~(Keys \subseteq DOMAIN Fields(conn[c].req)) )
        => Replied(c, 400) /\ sunk[c] = 0

\* C4: a POST without a content-type header, with a malformed one, or with
\* a body that is not JSON is answered 400, dispatches nothing and raises
\* nothing.
C4_UnreadableIs400 ==
    \A c \in Clients :
        ( /\ Done(c)
          /\ conn[c].req.method = "POST"
          /\ \/ ~conn[c].req.ctype.present
             \/ MediaType(conn[c].req) = ""
             \/ /\ MediaType(conn[c].req) = "application/json"
                /\ conn[c].req.clen = "present"
                /\ ~conn[c].req.body.parsable )
        => Replied(c, 400) /\ sunk[c] = 0

Count(seq, e) == Cardinality({i \in 1..Len(seq) : seq[i] = e})

\* C5: for any interleaving of concurrent valid POSTs the sink receives one
\* Event per request: no request is dispatched twice, every answered valid
\* request has been dispatched, and the sink holds exactly the dispatched
\* requests' Events.
C5_OneEventPerRequest ==
    /\ \A c \in Clients : sunk[c] <= 1
    /\ \A c \in Clients : (Done(c) /\ ValidPost(conn[c].req)) => sunk[c] = 1
    /\ \A c \in Clients : sunk[c] = 1 => ValidPost(conn[c].req)
    /\ \A c \in Clients :
          sunk[c] = 1 =>
             Count(sink, NamedEvent(conn[c].req))
               = Cardinality({d \in Clients : sunk[d] = 1
                                /\ NamedEvent(conn[d].req) = NamedEvent(conn[c].req)})
    /\ Len(sink) = Cardinality({c \in Clients : sunk[c] = 1})

C5_Witness ==
    /\ \A c \in Clients : Done(c) /\ ValidPost(conn[c].req) /\ Replied(c, 200)
    /\ Len(sink) = MaxClients
    /\ sink[1] = NamedEvent(conn[MaxClients].req)
    /\ sink[1] # sink[2]

-----------------------------------------------------------------------------
(* NotifierSpec *)

\* Notifier.__init__
NotifierInit ==
    /\ config \in Configs
    /\ now \in StartTimes
    /\ launch = now
    /\ last = NoLast
    /\ ApiInit({1})
    /\ WalletIdle
    /\ PartialIdle
    /\ ServerServing

Filter == \E event \in Events : Notify(event)

NotifierNext ==
    \/ Tick
    \/ Filter

NotifierSpec == NotifierInit /\ [][NotifierNext]_vars

-----------------------------------------------------------------------------
(* The filtering rules, in terms of the configuration, the clock and the   *)
(* Event filtered                                                          *)

True == PyReturn(PyBool(TRUE))

False == PyReturn(PyBool(FALSE))

Ignored == ~last.ignored.raised /\ truthy(last.ignored.v)

Allowed == ~last.allowed.raised /\ truthy(last.allowed.v)

SinceLaunch == now - launch

IgnoreKeepalive == Rule(Entry(name("KEEPALIVE")), Missing, Missing, NoPattern, NoCompound)

AllowWallet == Rule(Missing, Missing, Entry(name("WALLET")), NoPattern, NoCompound)

\* C6: an Event is delivered only if should_ignore_event is false and
\* should_allow_event is true; an ignored Event is suppressed even if the
\* allow rule matches it, as with ignore = {type: KEEPALIVE},
\* allow = {service: WALLET} and a KEEPALIVE Event of the WALLET service.
C6_IgnoreWins ==
    last.filtered =>
        /\ last.delivered => ~Ignored /\ Allowed
        /\ Ignored => ~last.delivered
        /\ ( /\ config.ignore = IgnoreKeepalive
             /\ config.allow = AllowWallet
             /\ last.event.type = "KEEPALIVE"
             /\ last.event.service = "WALLET" )
           => /\ Allowed
              /\ ~last.delivered
              /\ last.event.message.t = "str" => Ignored

C6_Witness ==
    /\ last.filtered
    /\ config.ignore = IgnoreKeepalive
    /\ config.allow = AllowWallet
    /\ last.event.type = "KEEPALIVE"
    /\ last.event.service = "WALLET"
    /\ SinceLaunch = 1900
    /\ Ignored
    /\ Allowed
    /\ ~last.delivered

OfflineWarning(event) ==
    event.service = "HARVESTER" /\ event.message = JStr(Offline)

\* C7: with no ignore spec, the HARVESTER Event "Your harvester appears to
\* be offline!" is ignored at every time up to 1800 s after the launch and
\* at no later time.
C7_GracePeriod ==
    (last.filtered /\ config.ignore = Absent /\ OfflineWarning(last.event))
    => /\ SinceLaunch <= 1800 => last.ignored = True
       /\ SinceLaunch > 1800 => last.ignored = False

C7_Witness ==
    /\ last.filtered
    /\ config.ignore = Absent
    /\ OfflineWarning(last.event)
    /\ SinceLaunch = 1800
    /\ last.ignored = True

\* C8 as claimed: with no ignore spec, an Event whose service is not
\* HARVESTER is never ignored, whatever its message and the time.
C8_OnlyHarvester ==
    ( /\ last.filtered
      /\ config.ignore = Absent
      /\ last.event.service # "HARVESTER"
      /\ last.event.message.t = "str" )
    => last.ignored = False

\* C8 as amended: with no ignore spec, an Event with a text message whose
\* service is not HARVESTER is ignored exactly when the time is at most
\* 1800 s after the launch and its message starts with "Experiencing
\* networking issues?" or "Cha-ching!"; the service is tested for the
\* offline-harvester message alone.
C8_ServiceTestedForOfflineOnly ==
    ( /\ last.filtered
      /\ config.ignore = Absent
      /\ last.event.service # "HARVESTER"
      /\ last.event.message.t = "str" )
    => IF /\ SinceLaunch <= 1800
          /\ \/ startswith(last.event.message.s, Networking)
             \/ startswith(last.event.message.s, ChaChing)
       THEN last.ignored = True
       ELSE last.ignored = False

C8_Witness ==
    /\ last.filtered
    /\ config.ignore = Absent
    /\ last.event.service = "FARMER"
    /\ last.event.message = JStr(Networking \o Suffix)
    /\ SinceLaunch = 100
    /\ last.ignored = True

\* evaluating the rule spec against the Event raises: the spec is no dict,
\* or no flat field matches and the message pattern does not compile or is
\* searched in a message that is no text, or nothing matches and the
\* compound text is no JSON or its tree cannot be evaluated
Faulty(rule, event) ==
    \/ rule.kind = "none"
    \/ /\ rule.kind = "dict"
       /\ ~(rule.type.has /\ rule.type.s = name(event.type))
       /\ ~(rule.priority.has /\ rule.priority.s = name(event.priority))
       /\ ~(rule.service.has /\ rule.service.s = name(event.service))
       /\ \/ rule.message.has /\ (~rule.message.valid \/ event.message.t # "str")
          \/ /\ ~(rule.message.has /\ re_search(rule.message, event.message).v)
             /\ rule.compound.has
             /\ (~rule.compound.json \/ jsonLogic(rule.compound.tree, flatten(event)).raised)

\* C9: a rule spec whose evaluation raises resolves to false and nothing
\* is raised to the caller: outside the grace period a faulty ignore rule
\* gives should_ignore_event = False, and a faulty allow rule gives
\* should_allow_event = False, so the Event is suppressed.
C9_FaultsResolveToFalse ==
    last.filtered =>
        /\ (SinceLaunch > 1800 /\ Faulty(config.ignore, last.event))
              => last.ignored = False
        /\ Faulty(config.allow, last.event)
              => last.allowed = False /\ ~last.delivered
        /\ SinceLaunch > 1800 => ~last.ignored.raised
        /\ ~last.allowed.raised

C9_Witness ==
    /\ last.filtered
    /\ SinceLaunch = 1900
    /\ config.ignore = Rule(Missing, Missing, Missing, BadPattern, NoCompound)
    /\ config.allow = Rule(Missing, Missing, Missing, NoPattern, BadCompound)
    /\ last.ignored = False
    /\ last.allowed = False
    /\ ~last.delivered

\* the entry is the member's name in some letter case
NamesInAnyCase(entry, member) == entry.has /\ entry.s \in Casings(name(member))

MatchesInAnyCase(rule, event) ==
    /\ rule.kind = "dict"
    /\ \/ NamesInAnyCase(rule.type, event.type)
       \/ NamesInAnyCase(rule.priority, event.priority)
       \/ NamesInAnyCase(rule.service, event.service)

\* C10: a flat type, priority or service entry matches an Event whatever
\* the letter case it is written in: the ignore predicate (outside the
\* grace period) and the allow predicate are then true.
C10_FlatMatchIgnoresCase ==
    last.filtered =>
        /\ (SinceLaunch > 1800 /\ MatchesInAnyCase(config.ignore, last.event))
              => last.ignored = True
        /\ MatchesInAnyCase(config.allow, last.event) => last.allowed = True

-----------------------------------------------------------------------------
(* The Events that leave the ingestion endpoint *)

\* C11: every Event handed to the sink has its type, priority and service
\* in the enumerations and a message that is a string; a POST whose message
\* is not a string produces no Event.
C11_SinkEventsWellTyped ==
    /\ \A i \in 1..Len(sink) :
          /\ sink[i].type \in EventType
          /\ sink[i].priority \in EventPriority
          /\ sink[i].service \in EventService
          /\ sink[i].message.t = "str"
    /\ \A c \in Clients :
          ( /\ JsonPost(conn[c].req)
            /\ "message" \in DOMAIN Fields(conn[c].req)
            /\ Fields(conn[c].req)["message"].t # "str" )
          => sunk[c] = 0

-----------------------------------------------------------------------------
(* WalletSpec: a parser constructed for some prefix parses some log text *)

\* WalletAddedCoinParser.__init__, and the text it is then given
WalletInit ==
    /\ prefix \in Prefixes
    /\ logs \in LogTexts
    /\ parsed = NotCalled
    /\ ApiInit({1})
    /\ NotifierIdle
    /\ PartialIdle
    /\ ServerServing

WalletSpec == WalletInit /\ [][parse]_vars

\* the multiplier of each prefix, as the documentation of the forks gives it
Factor(p) ==
    CASE p = "chives" -> 10000
      [] p = "cryptodoge" -> 1000000
      [] p \in {"shibgreen", "littlelambocoin"} -> 1000000000
      [] p = "stai" -> 1000
      [] OTHER -> 1

\* C12: parse raises for no input text: it returns a sequence of records,
\* empty or not, also when a matched line has an empty or malformed
\* timestamp or amount.
C12_ParseNeverRaises == parsed.state # "raised"

Matched == SelectSeq(logs, LAMBDA line : line.fits /\ line.module \in {"src", prefix})

\* C13: the amount of each record is the base amount of its line times the
\* multiplier of the configured prefix, applied once.
C13_AmountScaledOnce ==
    parsed.state = "returned" =>
        /\ Len(parsed.records) = Len(Matched)
        /\ \A i \in 1..Len(Matched) :
              parsed.records[i].amount_mojos
                  = DecimalValue(Matched[i].amount) * Factor(prefix)

C13_Witness ==
    /\ parsed.state = "returned"
    /\ prefix = "littlelambocoin"
    /\ Len(parsed.records) = 2
    /\ parsed.records[1].amount_mojos = 2000000000
    /\ parsed.records[2].amount_mojos = 1000000000

-----------------------------------------------------------------------------
(* PartialSpec: a handler with some checkers handles some log text *)

\* PartialHandler.__init__ with checkers registered, and the arguments of handle
PartialInit ==
    /\ cond_checkers \in UNION { [1..n -> Checkers] : n \in 0..MaxCheckers }
    /\ partial_logs \in UNION { [1..n -> PartialLines] : n \in 0..MaxRecords }
    /\ stats_manager \in {None, StatsManager(<<>>)}
    /\ handled = NotHandled
    /\ ApiInit({1})
    /\ NotifierIdle
    /\ WalletIdle
    /\ ServerServing

PartialSpec == PartialInit /\ [][handle]_vars

Records == SelectSeq(partial_logs, LAMBDA line : line # "noise")

\* the pairs <<record, checker>>, records first
Pairs ==
    [k \in 1..(Len(Records) * Len(cond_checkers)) |->
        <<((k - 1) \div Len(cond_checkers)) + 1, ((k - 1) % Len(cond_checkers)) + 1>>]

Emits(pair) ==
    \/ cond_checkers[pair[2]] = "always"
    \/ cond_checkers[pair[2]] = "first only" /\ Records[pair[1]] = "partial 1"

EventOf(pair) == [by |-> cond_checkers[pair[2]], about |-> Records[pair[1]]]

RECURSIVE EventsOf(_)
EventsOf(pairs) ==
    IF pairs = <<>> THEN <<>>
    ELSE IF Emits(Head(pairs)) THEN <<EventOf(Head(pairs))>> \o EventsOf(Tail(pairs))
    ELSE EventsOf(Tail(pairs))

\* C14: handle parses the text once and runs every registered checker on
\* every parsed record exactly once, record by record and, for each record,
\* in registration order; it returns exactly the Events those checks
\* produced, in that order.
C14_EveryCheckerOnEveryRecord ==
    handled.state = "returned" =>
        /\ handled.did.parses = 1
        /\ handled.did.checks = Pairs
        /\ handled.did.events = EventsOf(Pairs)

C14_Witness ==
    /\ handled.state = "returned"
    /\ cond_checkers = <<"first only", "always">>
    /\ partial_logs = <<"partial 2", "partial 1">>
    /\ Len(handled.did.checks) = 4
    /\ Len(handled.did.events) = 3
    /\ handled.did.events[1] = [by |-> "always", about |-> "partial 2"]
    /\ handled.did.events[2] = [by |-> "first only", about |-> "partial 1"]

\* C15: a stats manager that is supplied receives the whole sequence of
\* parsed records once per call, whatever the checkers return; the Events
\* returned do not depend on whether one is supplied.
C15_StatsAlwaysForwarded ==
    handled.state = "returned" =>
        /\ stats_manager # None => stats_manager.consumed = <<Records>>
        /\ handled.did.events = EventsOf(Pairs)

C15_Witness ==
    /\ handled.state = "returned"
    /\ stats_manager # None
    /\ partial_logs = <<"partial 1", "noise">>
    /\ cond_checkers = <<"never">>
    /\ handled.did.events = <<>>
    /\ stats_manager.consumed = <<(<<"partial 1">>)>>

-----------------------------------------------------------------------------
(* StopSpec: the thread serves one client while stop_server is called, at  *)
(* any moment, up to MaxStops times in a row.  The thread and a call of    *)
(* stop_server that has begun keep running; a handler returns.             *)

StopInit ==
    ApiInit({1}) /\ NotifierIdle /\ WalletIdle /\ PartialIdle /\ ServerInit

StopNext ==
    \/ ConcConnect
    \/ do_HEAD
    \/ do_GET
    \/ do_POST
    \/ process_events
    \/ send_confirmation
    \/ serve_forever
    \/ serve_forever_returns
    \/ interrupted
    \/ server_close
    \/ shutdown
    \/ shutdown_returns
    \/ join

StopSpec ==
    /\ StopInit
    /\ [][StopNext]_vars
    /\ WF_vars(serve_forever)
    /\ WF_vars(serve_forever_returns)
    /\ WF_vars(server_close)
    /\ WF_vars(process_events)
    /\ WF_vars(send_confirmation)
    /\ WF_vars(shutdown_returns)
    /\ WF_vars(join)

Stopped == stopper.pc = "idle" /\ stopper.returned > 0

\* C16: every call of stop_server returns, the first, the second, one made
\* before the thread entered the serve loop and one made after it left it;
\* once a call has returned no request is accepted, the listening socket is
\* closed and the thread has ended.
C16_StopServerReturns ==
    /\ [](Stopped =>
            /\ thread = "exited"
            /\ ~listening
            /\ ~ENABLED (do_HEAD \/ do_GET \/ do_POST))
    /\ (stopper.pc # "idle") ~> (stopper.pc = "idle")

C16_Witness ==
    /\ stopper = Stopper("idle", 2)
    /\ thread = "exited"
    /\ ~listening
    /\ backlog # <<>>

-----------------------------------------------------------------------------
(* FaultSpec: concurrent clients, and a sink that may raise *)

FaultNext ==
    \/ ConcConnect
    \/ do_HEAD
    \/ do_GET
    \/ do_POST
    \/ process_events
    \/ process_events_raises
    \/ send_confirmation

FaultSpec == ConcInit /\ [][FaultNext]_vars

SinkFault(c) == Done(c) /\ conn[c].fault /\ sunk[c] = 1

\* C17: a request whose handling raises, while decoding or in the sink,
\* does not stop the listener: the handler is free again, the next request
\* waiting is accepted, and every valid POST handled, before or after,
\* reaches the sink exactly once and is answered 200 unless its own sink
\* call raises.
C17_FaultsAreIsolated ==
    /\ cur # 0 => conn[cur].st \in {"built", "processed"}
    /\ (cur = 0 /\ backlog # <<>>) => ENABLED (do_HEAD \/ do_GET \/ do_POST)
    /\ \A c \in Clients :
          (Done(c) /\ ValidPost(conn[c].req)) =>
             /\ sunk[c] = 1
             /\ ~SinkFault(c) => Replied(c, 200)

C17_Witness ==
    \E c, d \in Clients :
        /\ SinkFault(c)
        /\ Done(d) /\ ValidPost(conn[d].req) /\ Replied(d, 200)
        /\ sink = <<NamedEvent(conn[c].req), NamedEvent(conn[d].req)>>
        /\ sink[1] # sink[2]

\* C20: the 200 of a POST is written only after the sink call for that
\* request has returned: a POST answered 200 has had exactly one sink call
\* and no fault, and a request whose sink call raised has no reply.
C20_SinkBeforeConfirmation ==
    \A c \in Clients :
        /\ (Done(c) /\ conn[c].req.method = "POST" /\ conn[c].reply.status = 200)
              => sunk[c] = 1 /\ ~conn[c].fault
        /\ conn[c].st = "processed" => sunk[c] = 1
        /\ SinkFault(c) => conn[c].reply = NoReply

C20_Witness ==
    \E c, d \in Clients :
        /\ SinkFault(c)
        /\ conn[c].reply = NoReply
        /\ Replied(d, 200)
        /\ conn[d].req.method = "POST"
        /\ sunk[d] = 1
        /\ Len(sink) = 2

-----------------------------------------------------------------------------
(* Precedence inside the predicates (NotifierSpec) *)

GraceListed(event) ==
    /\ event.message.t = "str"
    /\ \/ event.service = "HARVESTER" /\ startswith(event.message.s, Offline)
       \/ startswith(event.message.s, Networking)
       \/ startswith(event.message.s, ChaChing)

\* C18: up to 1800 s after the launch should_ignore_event is true for a
\* grace-listed message whatever the ignore spec is (absent, not matching,
\* faulty), and the Event is suppressed even if the allow spec matches it.
C18_GraceBeforeConfig ==
    (last.filtered /\ SinceLaunch <= 1800 /\ GraceListed(last.event))
    => last.ignored = True /\ ~last.delivered

C18_Witness ==
    /\ last.filtered
    /\ SinceLaunch = 1800
    /\ config.ignore = Rule(Missing, Missing, Missing, NoPattern, BadCompound)
    /\ config.allow = AllowWallet
    /\ last.event.service = "WALLET"
    /\ startswith(last.event.message.s, ChaChing)
    /\ last.ignored = True
    /\ last.allowed = True
    /\ ~last.delivered

PatternFound(rule, event) ==
    /\ rule.message.has
    /\ rule.message.valid
    /\ event.message.t = "str"
    /\ re_search(rule.message, event.message).v

\* what C19 says the predicate is for a rule spec that is a mapping
Claimed(rule, event) ==
    IF MatchesInAnyCase(rule, event) \/ PatternFound(rule, event) THEN TRUE
    ELSE IF rule.compound.has
         THEN LET result == compound_result(rule.compound, event)
              IN  ~result.raised /\ truthy(result.v)
    ELSE FALSE

\* C19: for a rule spec with flat fields and optionally a compound tree the
\* predicate (ignore after the grace period, or allow) is true if a present
\* flat field matches, otherwise the compound tree's result if there is
\* one, otherwise false.
C19_FlatThenCompound ==
    last.filtered =>
        /\ (SinceLaunch > 1800 /\ config.ignore.kind = "dict")
              => (Ignored <=> Claimed(config.ignore, last.event))
        /\ config.allow.kind = "dict"
              => (Allowed <=> Claimed(config.allow, last.event))
=============================================================================
